---- MODULE Spec2Model ----
(***************************************************************************)
(* b3hash: directory fingerprinting (walk, parallel hash, aggregate),      *)
(* hashfile serialization and validation.                                  *)
(*                                                                         *)
(* Strings are sequences of byte values (a.t is <<97, 46, 116>>), so that  *)
(* byte order, prefixes and separators are the real ones.  The model is    *)
(* the non-Windows build: cfg!(windows) is false and the native separator  *)
(* is '/'.                                                                 *)
(***************************************************************************)
EXTENDS Integers, Sequences, FiniteSets, TLC

(* ------------------------------------------------------------------ *)
(* Program constants                                                  *)
(* ------------------------------------------------------------------ *)

\* util.rs: const DELIM: char = ' '
DELIM == 32

\* util.rs: const NEWLINE: char = '\n'
NEWLINE == 10

\* util.rs: const REPLACEMENT: char = '/'
REPLACEMENT == 47

\* util.rs: const WINDOWS_MOMENT: char = '\\'
WINDOWS_MOMENT == 92

\* fs.rs: const HIDDEN_ENTRY_PREFIX: char = '.'
HIDDEN_ENTRY_PREFIX == 46

\* cfg!(windows) of the modelled build
Windows == FALSE

\* The native path separator of the modelled build
Sep == IF Windows THEN WINDOWS_MOMENT ELSE REPLACEMENT

(* ------------------------------------------------------------------ *)
(* Bounds                                                             *)
(* ------------------------------------------------------------------ *)

\* Width of a digest in bytes (blake3: 32), scaled down
DigestLen == 1

\* How many times other processes change the directory in one behaviour
MaxEnvChanges == 2

\* Longest record sequence handed to the serializer and the aggregator
MaxRecs == 2

\* Longest relative path of such a record
MaxPathLen == 2

\* Most lines of a hand-made persisted document
MaxLines == 2

(* ------------------------------------------------------------------ *)
(* Byte strings                                                       *)
(* ------------------------------------------------------------------ *)

Last(s) == s[Len(s)]

Front(s) == SubSeq(s, 1, Len(s) - 1)

Min(a, b) == IF a < b THEN a ELSE b

StartsWith(s, c) == Len(s) > 0 /\ s[1] = c

EndsWith(s, c) == Len(s) > 0 /\ s[Len(s)] = c

Range(s) == {s[i] : i \in 1..Len(s)}

\* Ord for str / [u8]: the first differing byte decides, a proper prefix is less
BytesLess(s, t) ==
    \E k \in 0..Min(Len(s), Len(t)) :
        /\ \A i \in 1..k : s[i] = t[i]
        /\ \/ (k = Len(s) /\ k < Len(t))
           \/ (k < Len(s) /\ k < Len(t) /\ s[k + 1] < t[k + 1])

\* Index of the first occurrence of byte c in s, 0 when there is none
IndexOf(s, c) ==
    IF \E i \in 1..Len(s) : s[i] = c
    THEN CHOOSE i \in 1..Len(s) : s[i] = c /\ \A j \in 1..(i - 1) : s[j] # c
    ELSE 0

\* str::split(c): the pieces between occurrences of c (empty pieces kept)
RECURSIVE Split(_, _)
Split(s, c) ==
    LET At(i) == IF i = 0 THEN <<s>>
                 ELSE <<SubSeq(s, 1, i - 1)>> \o Split(SubSeq(s, i + 1, Len(s)), c)
    IN  At(IndexOf(s, c))

\* Concatenation of a sequence of strings
RECURSIVE Concat(_)
Concat(ss) == IF ss = <<>> THEN <<>> ELSE ss[1] \o Concat(Tail(ss))

\* The sequences over S of length at most n
SeqsUpTo(S, n) == UNION {[1..k -> S] : k \in 0..n}

(* ------------------------------------------------------------------ *)
(* Paths (camino::Utf8Path over std::path, Unix flavour)              *)
(* ------------------------------------------------------------------ *)

\* The tags of std::path::Component in the order of its derived Ord:
\* RootDir < CurDir < ParentDir < Normal
RootDirC == [tag |-> 1, name |-> <<>>]

CurDirC == [tag |-> 2, name |-> <<>>]

ParentDirC == [tag |-> 3, name |-> <<>>]

NormalC(n) == [tag |-> 4, name |-> n]

IsAbsolute(p) == StartsWith(p, Sep)

\* Path::components(): repeated and trailing separators and inner "." pieces
\* vanish; a leading separator is RootDir, a leading "." is CurDir
Components(p) ==
    LET Named(kept) ==
            [i \in 1..Len(kept) |->
                IF kept[i] = <<46, 46>> THEN ParentDirC ELSE NormalC(kept[i])]
        Of(pieces, abs) ==
            (IF abs THEN <<RootDirC>>
             ELSE IF pieces[1] = <<46>> THEN <<CurDirC>> ELSE <<>>)
            \o Named(SelectSeq(IF abs \/ pieces[1] = <<46>> THEN Tail(pieces) ELSE pieces,
                                LAMBDA x : x # <<>> /\ x # <<46>>))
    IN  Of(Split(p, Sep), IsAbsolute(p))

CompLess(a, b) == a.tag < b.tag \/ (a.tag = b.tag /\ BytesLess(a.name, b.name))

\* Ord for Utf8PathBuf: component by component, not byte by byte
PathLess(p, q) ==
    LET Less(cp, cq) ==
            \E k \in 0..Min(Len(cp), Len(cq)) :
                /\ \A i \in 1..k : cp[i] = cq[i]
                /\ \/ (k = Len(cp) /\ k < Len(cq))
                   \/ (k < Len(cp) /\ k < Len(cq) /\ CompLess(cp[k + 1], cq[k + 1]))
    IN  Less(Components(p), Components(q))

\* Utf8Path::join (PathBuf::push): an absolute argument replaces the base, and
\* a separator is added only when the base does not already end in one
Join(base, name) ==
    IF IsAbsolute(name) THEN name
    ELSE IF base # <<>> /\ ~EndsWith(base, Sep) THEN base \o <<Sep>> \o name
    ELSE base \o name

\* Utf8Path::file_name(): the last component when it is a normal one
FileName(p) ==
    LET Of(c) == IF c # <<>> /\ Last(c).tag = 4 THEN Last(c).name ELSE <<>>
    IN  Of(Components(p))

(* ------------------------------------------------------------------ *)
(* The directory tree on disk                                         *)
(* ------------------------------------------------------------------ *)

\* Entry names: a, b, a.t, .h, l and the hashed directory d itself
NameA == <<97>>

NameB == <<98>>

NameAT == <<97, 46, 116>>

NameH == <<46, 104>>

NameL == <<108>>

NameD == <<100>>

\* Every place an entry may be; a place is the list of names below d
Nodes ==
    { <<NameA>>, <<NameA, NameB>>, <<NameA, NameH>>, <<NameAT>>,
      <<NameH>>, <<NameH, NameB>>, <<NameL>> }

\* What may be at each place: l is a symbolic link to d itself
KindsAt(n) ==
    IF n = <<NameA>> THEN {"dir", "file"}
    ELSE IF n = <<NameH>> THEN {"dir", "none"}
    ELSE IF n = <<NameL>> THEN {"link", "none"}
    ELSE {"file", "none"}

Parent(n) == Front(n)

\* The contents a file may have; a file's size is its content number
Contents == 1..2

InitContent(n) == IF Len(n) = 2 THEN 2 ELSE 1

\* The tree in which a is a directory (holding b and the hidden file .h) or a
\* file, a.t is there or not, and the hidden directory .h (holding b) and the
\* link l are there together or not at all
TreeOf(aDir, at, hidden) ==
    [n \in Nodes |->
        IF n = <<NameA>> THEN (IF aDir THEN "dir" ELSE "file")
        ELSE IF n \in {<<NameA, NameB>>, <<NameA, NameH>>}
             THEN (IF aDir THEN "file" ELSE "none")
        ELSE IF n = <<NameAT>> THEN (IF at THEN "file" ELSE "none")
        ELSE IF n = <<NameH>> THEN (IF hidden THEN "dir" ELSE "none")
        ELSE IF n = <<NameH, NameB>> THEN (IF hidden THEN "file" ELSE "none")
        ELSE (IF hidden THEN "link" ELSE "none")]

Trees == {TreeOf(aDir, at, hidden) : aDir \in BOOLEAN, at \in BOOLEAN, hidden \in BOOLEAN}

MakeFs(t) ==
    [n \in Nodes |->
        [kind |-> t[n], content |-> IF t[n] = "file" THEN InitContent(n) ELSE 0]]

\* The dir_path strings the operations are called with: d, d/ and /d (the
\* working directory is the file system's root, so all three name d)
Roots == { <<100>>, <<100, 47>>, <<47, 100>> }

\* A place outside d
Outside == << <<0>> >>

\* The normal names of a path, in order
NormalNames(p) ==
    LET Of(c) == [i \in 1..Len(c) |-> c[i].name]
    IN  Of(SelectSeq(Components(p), LAMBDA x : x.tag = 4))

\* The place a path string names: <<>> is d itself
NodeOf(p) ==
    LET Of(c) ==
            LET Place(names) ==
                    IF \E i \in 1..Len(c) : c[i].tag = 3 THEN Outside
                    ELSE IF names = <<>> \/ names[1] # NameD THEN Outside
                    ELSE Tail(names)
            IN  Place([i \in 1..Len(SelectSeq(c, LAMBDA x : x.tag = 4)) |->
                          SelectSeq(c, LAMBDA x : x.tag = 4)[i].name])
    IN  Of(Components(p))

\* stat(2) of a path, following links: "file", "dir", "none" (ENOENT) or
\* "notdir" (ENOTDIR: a file is used as a directory)
Stat(f, p) ==
    LET At(n) ==
            IF p = <<>> THEN "none"
            ELSE IF n = Outside THEN (IF NormalNames(p) = <<>> THEN "dir" ELSE "none")
            ELSE IF n = <<>> THEN "dir"
            ELSE IF \E k \in 1..(Len(n) - 1) :
                        SubSeq(n, 1, k) \in Nodes /\ f[SubSeq(n, 1, k)].kind = "file"
                 THEN "notdir"
            ELSE IF n \notin Nodes THEN "none"
            ELSE IF f[n].kind = "file" /\ EndsWith(p, Sep) THEN "notdir"
            ELSE IF f[n].kind = "link" THEN "dir"
            ELSE f[n].kind
    IN  At(NodeOf(p))

\* The names directly inside directory place n
ChildNames(f, n) ==
    { Last(m) : m \in { m \in Nodes : Parent(m) = n /\ f[m].kind # "none" } }

(* ------------------------------------------------------------------ *)
(* Hashing and hex (blake3)                                           *)
(* ------------------------------------------------------------------ *)

\* One digest byte per content: different contents have different digests
DigestByte(c) == IF c = 1 THEN 17 ELSE 183

\* Hasher::new().update(content).finalize(): DigestLen bytes
Blake3(c) == [i \in 1..DigestLen |-> DigestByte(c)]

\* Hasher::update_mmap(path): opens and reads the file at path
UpdateMmap(f, p) ==
    LET Read(k, n) ==
            IF k = "file"
            THEN [ok |-> TRUE, hash |-> Blake3(f[n].content), count |-> f[n].content]
            ELSE [ok |-> FALSE, err |-> IF k = "none" THEN "NotFound" ELSE "Other"]
    IN  Read(Stat(f, p), NodeOf(p))

\* Path::try_exists(): Ok(true), Ok(false) for nonexistence, Err otherwise
TryExists(f, p) ==
    LET Of(k) == IF k = "none" THEN "false" ELSE IF k = "notdir" THEN "err" ELSE "true"
    IN  Of(Stat(f, p))

HexDigit(n) == IF n < 10 THEN 48 + n ELSE 87 + n

\* Hash::to_hex(): two lowercase hex digits per byte
ToHex(h) ==
    [i \in 1..(2 * Len(h)) |->
        IF i % 2 = 1 THEN HexDigit(h[(i + 1) \div 2] \div 16)
        ELSE HexDigit(h[i \div 2] % 16)]

\* The value of a hex digit of either case, -1 for any other byte
HexVal(c) ==
    IF c \in 48..57 THEN c - 48
    ELSE IF c \in 97..102 THEN c - 87
    ELSE IF c \in 65..70 THEN c - 55
    ELSE -1

\* Hash::from_hex(): exactly 2 * DigestLen hex digits, else an error
FromHex(s) ==
    IF Len(s) = 2 * DigestLen /\ \A i \in 1..Len(s) : HexVal(s[i]) >= 0
    THEN [ok |-> TRUE,
          hash |-> [i \in 1..DigestLen |->
                      16 * HexVal(s[2 * i - 1]) + HexVal(s[2 * i])]]
    ELSE [ok |-> FALSE]

\* util.rs hash_eq: bytewise equality on either architecture
hash_eq(x, y) == x = y

(* ------------------------------------------------------------------ *)
(* util.rs: pure parts of hash_files, serialize_hashed_files,         *)
(* validate_data; lib.rs: the fold of hash_directory                  *)
(* ------------------------------------------------------------------ *)

\* oi_vei: on Windows every backslash becomes a slash
oi_vei(s) ==
    IF Windows
    THEN [i \in 1..Len(s) |-> IF s[i] = WINDOWS_MOMENT THEN REPLACEMENT ELSE s[i]]
    ELSE s

\* let prefix_len = dir_path.len() + 1
PrefixLen(dir_path) == Len(dir_path) + 1

\* file_path.as_str().get_unchecked(prefix_len..)
StripPrefix(file_path, prefix_len) == SubSeq(file_path, prefix_len + 1, Len(file_path))

\* A sort that leaves the list as the walker found it
NoSort(s) == s

\* A sort of the path strings by their bytes
SortBytes(s) ==
    [i \in 1..Len(s) |->
        CHOOSE x \in Range(s) : Cardinality({y \in Range(s) : BytesLess(y, x)}) = i - 1]

\* file_list.sort_unstable(): Ord of Utf8PathBuf; the paths are distinct
SortUnstable(s) ==
    [i \in 1..Len(s) |->
        CHOOSE x \in Range(s) : Cardinality({y \in Range(s) : PathLess(y, x)}) = i - 1]

\* The closure of hash_files: hash one file and strip the root from its path
HashOneFile(f, dir_path, file_path) ==
    LET Of(h) ==
            IF h.ok
            THEN [st |-> "ok",
                  rec |-> [hash |-> h.hash,
                           path |-> oi_vei(StripPrefix(file_path, PrefixLen(dir_path))),
                           size |-> h.count]]
            ELSE [st |-> "err", kind |-> h.err]
    IN  Of(UpdateMmap(f, file_path))

\* A line without its NEWLINE
SerializeLineUnended(file) == ToHex(file.hash) \o <<DELIM>> \o file.path

\* One line of the document: hex digest, DELIM, path, NEWLINE
SerializeLine(file) == ToHex(file.hash) \o <<DELIM>> \o file.path \o <<NEWLINE>>

\* serialize_hashed_files: the lines of the records, in order
serialize_hashed_files(hashed_files) ==
    Concat([i \in 1..Len(hashed_files) |-> SerializeLine(hashed_files[i])])

\* str::par_lines(): split at NEWLINE, no piece after a final NEWLINE, and one
\* trailing carriage return taken off each line
ParLines(data) ==
    LET Trimmed(kept) ==
            [i \in 1..Len(kept) |->
                IF EndsWith(kept[i], 13) THEN Front(kept[i]) ELSE kept[i]]
        Of(pieces) == Trimmed(IF Last(pieces) = <<>> THEN Front(pieces) ELSE pieces)
    IN  Of(Split(data, NEWLINE))

\* A parser that splits the line at its last DELIM instead of its first
ParseLineAtLast(line) ==
    LET Hashed(h, file_path) ==
            IF ~h.ok THEN [st |-> "err", kind |-> "InvalidData"]
            ELSE [st |-> "ok", hash |-> h.hash, path |-> file_path]
        At(i) ==
            IF i = 0 THEN [st |-> "err", kind |-> "NotFound"]
            ELSE Hashed(FromHex(SubSeq(line, 1, i - 1)), SubSeq(line, i + 1, Len(line)))
    IN  At(IF DELIM \in Range(line)
           THEN CHOOSE i \in 1..Len(line) :
                    line[i] = DELIM /\ \A j \in (i + 1)..Len(line) : line[j] # DELIM
           ELSE 0)

\* line.split_once(DELIM) followed by Hash::from_hex of the first part
ParseLine(line) ==
    LET Hashed(h, file_path) ==
            IF ~h.ok THEN [st |-> "err", kind |-> "InvalidData"]
            ELSE [st |-> "ok", hash |-> h.hash, path |-> file_path]
        At(i) ==
            IF i = 0 THEN [st |-> "err", kind |-> "NotFound"]
            ELSE Hashed(FromHex(SubSeq(line, 1, i - 1)), SubSeq(line, i + 1, Len(line)))
    IN  At(IndexOf(line, DELIM))

\* A fold that feeds the digests and leaves the paths out
AggregateDigests(hashed_files) ==
    Concat([i \in 1..Len(hashed_files) |-> hashed_files[i].hash])

\* The bytes hash_directory feeds the aggregate hasher: per record the digest
\* bytes, then the path bytes
AggregateStream(hashed_files) ==
    Concat([i \in 1..Len(hashed_files) |->
                hashed_files[i].hash \o hashed_files[i].path])

RECURSIVE SumSizes(_)
SumSizes(hashed_files) ==
    IF hashed_files = <<>> THEN 0
    ELSE hashed_files[1].size + SumSizes(Tail(hashed_files))

\* The HashedDirectory hash_directory returns; the aggregate hash is kept as
\* the stream it is the hash of
HashedDirectory(dir_path, hashed_files) ==
    [dir_name |-> IF FileName(dir_path) = <<>> THEN dir_path ELSE FileName(dir_path),
     files |-> hashed_files,
     hash |-> <<"blake3", AggregateStream(hashed_files)>>,
     size |-> SumSizes(hashed_files)]

(* ------------------------------------------------------------------ *)
(* State                                                              *)
(* ------------------------------------------------------------------ *)

VARIABLES
    fs,         \* the tree below d: place -> [kind, content]
    root,       \* the dir_path string the operations are called with
    hashfile,   \* ./.b3hash_v1: [present, data]
    op,         \* the operation in progress or last finished
    pc,         \* where that operation is: idle, walk, hash, validate
    files,      \* get_files: the files found so far
    folders,    \* get_files: the worklist of pending directories
    file_list,  \* hash_files: the sorted file list
    lines,      \* validate_data: the lines of the document
    slots,      \* one output slot per parallel task (file or line)
    result,     \* what the last finished operation returned
    fed,        \* the bytes given to the aggregate hasher
    input,      \* records handed directly to the serializer and the fold
    persisted,  \* history: the tree as create_hashfile last hashed it
    lastSnap,   \* history: the latest snapshot of the unchanged tree
    prevSnap,   \* history: the snapshot before lastSnap
    raced,      \* history: the tree changed since the last operation started
    envLeft     \* changes other processes may still make

vars ==
    << fs, root, hashfile, op, pc, files, folders, file_list, lines, slots,
       result, fed, input, persisted, lastSnap, prevSnap, raced, envLeft >>

NoFile == [present |-> FALSE, data |-> <<>>]

None == [st |-> "none"]

Todo == [st |-> "todo"]

Ok(v) == [st |-> "ok", val |-> v]

Err(k) == [st |-> "err", kind |-> k]

TypeOK ==
    /\ root \in Roots
    /\ pc \in {"idle", "walk", "hash", "validate"}
    /\ op \in {"none", "hash_directory", "create_hashfile", "validate_hashfile",
               "serialize", "fold"}
    /\ envLeft \in 0..MaxEnvChanges
    /\ raced \in BOOLEAN
    /\ hashfile.present \in BOOLEAN

Init ==
    /\ fs \in {MakeFs(t) : t \in Trees}
    /\ root \in Roots
    /\ hashfile = NoFile
    /\ op = "none"
    /\ pc = "idle"
    /\ files = <<>>
    /\ folders = <<>>
    /\ file_list = <<>>
    /\ lines = <<>>
    /\ slots = <<>>
    /\ result = None
    /\ fed = <<>>
    /\ input = <<>>
    /\ persisted = None
    /\ lastSnap = None
    /\ prevSnap = None
    /\ raced = FALSE
    /\ envLeft = MaxEnvChanges

(* ------------------------------------------------------------------ *)
(* fs.rs: the directory walker                                        *)
(* ------------------------------------------------------------------ *)

\* The orders in which the OS may list the names in S
Orders(S) ==
    { o \in [1..Cardinality(S) -> S] : \A i, j \in 1..Cardinality(S) : o[i] = o[j] => i = j }

\* DirEntry::file_type() of entry name in directory dir_path (links not followed)
EntryType(f, dir_path, name) == f[NodeOf(dir_path) \o <<name>>].kind

\* The hidden test of push_entries with the test left out
IsVisibleAll(name) == TRUE

\* !entry.file_name().starts_with(HIDDEN_ENTRY_PREFIX)
IsVisible(name) == ~StartsWith(name, HIDDEN_ENTRY_PREFIX)

\* push_entries: the visible entries of dir_path, in listing order, the files
\* among them (want = "file") or the folders (want = "dir"), as joined paths
PushEntries(f, dir_path, order, want) ==
    LET take == SelectSeq(order,
                    LAMBDA name : IsVisible(name) /\ EntryType(f, dir_path, name) = want)
    IN  [i \in 1..Len(take) |-> Join(dir_path, take[i])]

(* ------------------------------------------------------------------ *)
(* Operations                                                         *)
(* ------------------------------------------------------------------ *)

\* The scratch state of an operation, dropped when it returns
Cleared ==
    /\ files' = <<>>
    /\ folders' = <<>>
    /\ file_list' = <<>>
    /\ lines' = <<>>
    /\ slots' = <<>>

\* hash_directory / create_hashfile are called: hash_files starts get_files
\* with the root on the worklist
StartHashFiles(o) ==
    /\ pc = "idle"
    /\ op' = o
    /\ pc' = "walk"
    /\ folders' = <<root>>
    /\ files' = <<>>
    /\ result' = None
    /\ raced' = FALSE
    /\ UNCHANGED << fs, root, hashfile, file_list, lines, slots, fed, input,
                    persisted, lastSnap, prevSnap, envLeft >>

hash_directory == StartHashFiles("hash_directory")

create_hashfile == StartHashFiles("create_hashfile")

\* One turn of the loop of get_files: pop a folder, push_entries of it, the
\* OS listing its entries in any order; a failed read_dir ends the operation
WalkStep ==
    /\ pc = "walk"
    /\ folders # <<>>
    /\ LET cur == Last(folders)
       IN  IF Stat(fs, cur) = "dir" /\ NodeOf(cur) # Outside
           THEN /\ \E order \in Orders(ChildNames(fs, NodeOf(cur))) :
                     /\ files' = files \o PushEntries(fs, cur, order, "file")
                     /\ folders' = Front(folders) \o PushEntries(fs, cur, order, "dir")
                /\ UNCHANGED << pc, result, lines, slots, file_list >>
           ELSE /\ pc' = "idle"
                /\ result' = Err("NotFound")
                /\ Cleared
    /\ UNCHANGED << fs, root, hashfile, op, fed, input, persisted, lastSnap,
                    prevSnap, raced, envLeft >>

\* get_files returns; hash_files sorts the list and hands one task per file
\* to the pool
SortFileList ==
    /\ pc = "walk"
    /\ folders = <<>>
    /\ file_list' = SortUnstable(files)
    /\ slots' = [i \in 1..Len(files) |-> Todo]
    /\ pc' = "hash"
    /\ files' = <<>>
    /\ UNCHANGED << fs, root, hashfile, op, folders, lines, result, fed, input,
                    persisted, lastSnap, prevSnap, raced, envLeft >>

\* A worker runs the closure of hash_files for one file, in any order
HashTask ==
    /\ pc = "hash"
    /\ \E i \in 1..Len(slots) :
         /\ slots[i] = Todo
         /\ slots' = [slots EXCEPT ![i] = HashOneFile(fs, root, file_list[i])]
    /\ UNCHANGED << fs, root, hashfile, op, pc, files, folders, file_list, lines,
                    result, fed, input, persisted, lastSnap, prevSnap, raced,
                    envLeft >>

AllDone == \A i \in 1..Len(slots) : slots[i].st \notin {"todo", "exists"}

AnyErr == \E i \in 1..Len(slots) : slots[i].st = "err"

\* collect::<IOResult<Vec<_>>>(): the records in list order
Collected == [i \in 1..Len(slots) |-> slots[i].rec]

\* collect() met an error: the operation returns one of the errors met
CollectErr ==
    /\ pc \in {"hash", "validate"}
    /\ AnyErr
    /\ \E i \in 1..Len(slots) :
         /\ slots[i].st = "err"
         /\ result' = Err(slots[i].kind)
    /\ pc' = "idle"
    /\ Cleared
    /\ UNCHANGED << fs, root, hashfile, op, fed, input, persisted, lastSnap,
                    prevSnap, raced, envLeft >>

\* hash_directory after hash_files: fold the records into the aggregate
\* hasher and return the HashedDirectory
HashDirectoryFold ==
    /\ pc = "hash"
    /\ op = "hash_directory"
    /\ AllDone /\ ~AnyErr
    /\ result' = Ok(HashedDirectory(root, Collected))
    /\ fed' = AggregateStream(Collected)
    /\ prevSnap' = lastSnap
    /\ lastSnap' = Ok(HashedDirectory(root, Collected))
    /\ pc' = "idle"
    /\ Cleared
    /\ UNCHANGED << fs, root, hashfile, op, input, persisted, raced, envLeft >>

\* create_hashfile after hash_files: serialize the records and write them
CreateHashfileWrite ==
    /\ pc = "hash"
    /\ op = "create_hashfile"
    /\ AllDone /\ ~AnyErr
    /\ hashfile' = [present |-> TRUE, data |-> serialize_hashed_files(Collected)]
    /\ result' = Ok("unit")
    /\ persisted' = Ok(fs)
    /\ pc' = "idle"
    /\ Cleared
    /\ UNCHANGED << fs, root, op, fed, input, lastSnap, prevSnap, raced, envLeft >>

\* validate_hashfile: read the document (an error when there is none) and
\* start validate_data, one task per line
validate_hashfile ==
    /\ pc = "idle"
    /\ op' = "validate_hashfile"
    /\ raced' = FALSE
    /\ IF hashfile.present
       THEN /\ lines' = ParLines(hashfile.data)
            /\ slots' = [i \in 1..Len(ParLines(hashfile.data)) |-> Todo]
            /\ pc' = "validate"
            /\ result' = None
       ELSE /\ result' = Err("NotFound")
            /\ UNCHANGED << lines, slots, pc >>
    /\ UNCHANGED << fs, root, hashfile, files, folders, file_list, fed, input,
                    persisted, lastSnap, prevSnap, envLeft >>

\* A closure that takes a line it cannot parse for one more failed file
LineCheckTolerant(f, dir_path, line) ==
    LET parsed == ParseLine(line)
        path == Join(oi_vei(dir_path), parsed.path)
        there == TryExists(f, path)
    IN  IF parsed.st = "err" THEN [st |-> "failed", path |-> line]
        ELSE IF there = "err" THEN Err("Other")
        ELSE IF there = "false" THEN [st |-> "failed", path |-> path]
        ELSE [st |-> "exists", path |-> path, old_hash |-> parsed.hash]

\* The closure of validate_data up to try_exists, for one line
LineCheckOutcome(f, dir_path, line) ==
    LET parsed == ParseLine(line)
        path == Join(oi_vei(dir_path), parsed.path)
        there == TryExists(f, path)
    IN  IF parsed.st = "err" THEN parsed
        ELSE IF there = "err" THEN Err("Other")
        ELSE IF there = "false" THEN [st |-> "failed", path |-> path]
        ELSE [st |-> "exists", path |-> path, old_hash |-> parsed.hash]

\* A rehash that does not compare the digests
LineRehashNoCompare(f, slot) ==
    LET h == UpdateMmap(f, slot.path)
    IN  IF ~h.ok THEN Err(h.err) ELSE [st |-> "verified"]

\* The rest of the closure: update_mmap of the file and the comparison
LineRehashOutcome(f, slot) ==
    LET h == UpdateMmap(f, slot.path)
    IN  IF ~h.ok THEN Err(h.err)
        ELSE IF hash_eq(slot.old_hash, h.hash) THEN [st |-> "verified"]
        ELSE [st |-> "failed", path |-> slot.path]

\* A worker parses one line and checks that its file exists
LineCheck ==
    /\ pc = "validate"
    /\ \E i \in 1..Len(slots) :
         /\ slots[i] = Todo
         /\ slots' = [slots EXCEPT ![i] = LineCheckOutcome(fs, root, lines[i])]
    /\ UNCHANGED << fs, root, hashfile, op, pc, files, folders, file_list, lines,
                    result, fed, input, persisted, lastSnap, prevSnap, raced,
                    envLeft >>

\* The same worker rehashes the file it found and compares the digests
LineRehash ==
    /\ pc = "validate"
    /\ \E i \in 1..Len(slots) :
         /\ slots[i].st = "exists"
         /\ slots' = [slots EXCEPT ![i] = LineRehashOutcome(fs, slots[i])]
    /\ UNCHANGED << fs, root, hashfile, op, pc, files, folders, file_list, lines,
                    result, fed, input, persisted, lastSnap, prevSnap, raced,
                    envLeft >>

\* The failed paths, in line order
FailedFiles ==
    LET failed == SelectSeq(slots, LAMBDA x : x.st = "failed")
    IN  [i \in 1..Len(failed) |-> failed[i].path]

\* validate_data returns: None when no file failed, else the failed paths
ValidateReturn ==
    /\ pc = "validate"
    /\ AllDone /\ ~AnyErr
    /\ result' = Ok(IF Len(FailedFiles) = 0 THEN [some |-> FALSE, paths |-> <<>>]
                    ELSE [some |-> TRUE, paths |-> FailedFiles])
    /\ pc' = "idle"
    /\ Cleared
    /\ UNCHANGED << fs, root, hashfile, op, fed, input, persisted, lastSnap,
                    prevSnap, raced, envLeft >>

(* ------------------------------------------------------------------ *)
(* Other processes changing the tree                                  *)
(* ------------------------------------------------------------------ *)

\* Changes are followed from the moment a document is persisted (the trees
\* before that are the initial ones) and at the places the walker reports;
\* during a validation, removals are followed
EnvMay == envLeft > 0 /\ hashfile.present

VisiblePlace(n) == \A k \in 1..Len(n) : IsVisible(n[k])

EnvEffect ==
    /\ envLeft' = envLeft - 1
    /\ raced' = TRUE
    /\ lastSnap' = None
    /\ prevSnap' = None
    /\ UNCHANGED << root, hashfile, op, pc, files, folders, file_list, lines,
                    slots, result, fed, input, persisted >>

\* A file is overwritten with other content
EnvOverwrite ==
    /\ EnvMay
    /\ pc = "idle"
    /\ \E n \in Nodes, c \in Contents :
         /\ VisiblePlace(n)
         /\ fs[n].kind = "file"
         /\ fs[n].content # c
         /\ fs' = [fs EXCEPT ![n].content = c]
    /\ EnvEffect

\* A file is deleted
EnvDelete ==
    /\ EnvMay
    /\ pc \in {"idle", "validate"}
    /\ \E n \in Nodes :
         /\ VisiblePlace(n)
         /\ fs[n].kind = "file"
         /\ fs' = [fs EXCEPT ![n] = [kind |-> "none", content |-> 0]]
    /\ EnvEffect

\* A file is added where there was nothing
EnvCreate ==
    /\ EnvMay
    /\ pc = "idle"
    /\ \E n \in Nodes :
         /\ VisiblePlace(n)
         /\ fs[n].kind = "none"
         /\ "file" \in KindsAt(n)
         /\ Len(n) > 1 => fs[Parent(n)].kind = "dir"
         /\ fs' = [fs EXCEPT ![n] = [kind |-> "file", content |-> InitContent(n)]]
    /\ EnvEffect

Next ==
    \/ hash_directory
    \/ create_hashfile
    \/ WalkStep
    \/ SortFileList
    \/ HashTask
    \/ CollectErr
    \/ HashDirectoryFold
    \/ CreateHashfileWrite
    \/ validate_hashfile
    \/ LineCheck
    \/ LineRehash
    \/ ValidateReturn
    \/ EnvOverwrite
    \/ EnvDelete
    \/ EnvCreate

Spec == Init /\ [][Next]_vars

(* ------------------------------------------------------------------ *)
(* The serializer, the fold and the parser on given records           *)
(* ------------------------------------------------------------------ *)

\* The bytes of the relative paths given: a, space and line feed
PathBytes == {97, 32, 10}

InputPaths == SeqsUpTo(PathBytes, MaxPathLen) \ {<<>>}

\* The digests given: every byte 0x1a, or every byte 0x61 (the letter a)
Digests == {[i \in 1..DigestLen |-> b] : b \in {26, 97}}

\* The pairs of given paths in the order of the sorted file list
Before == {pq \in InputPaths \X InputPaths : PathLess(pq[1], pq[2])}

\* The path lists given: at most MaxRecs paths, as the sort leaves them
\* (strictly ascending, so distinct)
SortedPaths ==
    { ps \in SeqsUpTo(InputPaths, MaxRecs) :
        \A i \in 1..(Len(ps) - 1) : <<ps[i], ps[i + 1]>> \in Before }

\* The record sequences given: sorted distinct paths, any digests
InputRecords ==
    { [i \in 1..Len(ps) |-> [hash |-> h[i], path |-> ps[i], size |-> 1]]
      : ps \in SortedPaths, h \in [1..MaxRecs -> Digests] }

InitRecords ==
    /\ fs = MakeFs(TreeOf(FALSE, FALSE, FALSE))
    /\ root = <<100>>
    /\ hashfile = NoFile
    /\ op = "none"
    /\ pc = "idle"
    /\ files = <<>>
    /\ folders = <<>>
    /\ file_list = <<>>
    /\ lines = <<>>
    /\ slots = <<>>
    /\ result = None
    /\ fed = <<>>
    /\ input \in InputRecords
    /\ persisted = None
    /\ lastSnap = None
    /\ prevSnap = None
    /\ raced = FALSE
    /\ envLeft = 0

\* create_hashfile's serialize_hashed_files and write, on the given records
SerializeInput ==
    /\ pc = "idle"
    /\ ~hashfile.present
    /\ hashfile' = [present |-> TRUE, data |-> serialize_hashed_files(input)]
    /\ op' = "serialize"
    /\ result' = Ok("unit")
    /\ UNCHANGED << fs, root, pc, files, folders, file_list, lines, slots, fed,
                    input, persisted, lastSnap, prevSnap, raced, envLeft >>

\* hash_directory's fold, on the given records
FoldInput ==
    /\ pc = "idle"
    /\ op # "fold"
    /\ fed' = AggregateStream(input)
    /\ op' = "fold"
    /\ result' = Ok(HashedDirectory(root, input))
    /\ UNCHANGED << fs, root, hashfile, pc, files, folders, file_list, lines,
                    slots, input, persisted, lastSnap, prevSnap, raced, envLeft >>

RecordsNext ==
    \/ SerializeInput
    \/ FoldInput
    \/ validate_hashfile

RecordsSpec == InitRecords /\ [][RecordsNext]_vars

(* ------------------------------------------------------------------ *)
(* validate_data on given documents                                   *)
(* ------------------------------------------------------------------ *)

\* The first fields given: the hex of the digest of either content, and the
\* first of them with its last digit replaced by g, cut short by one digit,
\* or one digit too long
HexFields ==
    LET Around(h) == {h, [h EXCEPT ![Len(h)] = 103], Front(h), h \o <<49>>}
    IN  Around(ToHex(Blake3(1))) \cup {ToHex(Blake3(2))}

\* The lines given: a first field alone, or followed by DELIM and the path a
DocLines == HexFields \cup {h \o <<DELIM, 97>> : h \in HexFields}

\* The documents given: at most MaxLines lines, each ended by NEWLINE
Documents ==
    {Concat([i \in 1..Len(ls) |-> ls[i] \o <<NEWLINE>>]) : ls \in SeqsUpTo(DocLines, MaxLines)}

InitDocuments ==
    /\ fs \in {MakeFs(TreeOf(aDir, FALSE, FALSE)) : aDir \in BOOLEAN}
    /\ root = <<100>>
    /\ hashfile \in {[present |-> TRUE, data |-> d] : d \in Documents}
    /\ op = "none"
    /\ pc = "idle"
    /\ files = <<>>
    /\ folders = <<>>
    /\ file_list = <<>>
    /\ lines = <<>>
    /\ slots = <<>>
    /\ result = None
    /\ fed = <<>>
    /\ input = <<>>
    /\ persisted = None
    /\ lastSnap = None
    /\ prevSnap = None
    /\ raced = FALSE
    /\ envLeft = 0

\* One validation of the document
DocumentsNext ==
    \/ (op = "none" /\ validate_hashfile)
    \/ LineCheck
    \/ LineRehash
    \/ CollectErr
    \/ ValidateReturn

DocumentsSpec == InitDocuments /\ [][DocumentsNext]_vars

\* The fingerprinting operation alone, its loop and workers scheduled fairly
FingerprintNext ==
    \/ hash_directory
    \/ WalkStep
    \/ SortFileList
    \/ HashTask
    \/ HashDirectoryFold

FairSpec == Init /\ [][FingerprintNext]_vars /\ WF_vars(WalkStep)

(* ------------------------------------------------------------------ *)
(* What the tree holds, stated without the walker                     *)
(* ------------------------------------------------------------------ *)

\* The root string without a trailing separator
RootBare == IF EndsWith(root, Sep) THEN Front(root) ELSE root

\* The names of a place joined by '/'
RECURSIVE Slashed(_)
Slashed(n) ==
    IF Len(n) = 1 THEN n[1] ELSE n[1] \o <<47>> \o Slashed(Tail(n))

\* No name on the way to place n starts with a dot
NoDotName(n) == \A k \in 1..Len(n) : n[k][1] # 46

\* The regular files of tree f that no dot name hides
VisibleFiles(f) == {n \in Nodes : f[n].kind = "file" /\ NoDotName(n)}

HashDone == pc = "hash" /\ AllDone /\ ~AnyErr

ValidateDone == op = "validate_hashfile" /\ pc = "idle" /\ hashfile.present

(* ------------------------------------------------------------------ *)
(* Claims                                                             *)
(* ------------------------------------------------------------------ *)

\* C1: while the directory content stays the same, every run of
\* hash_directory returns the same snapshot (records and aggregate digest)
\* as the run before it, whatever the listing order and the order in which
\* the workers finish.
C1_SameSnapshot == (lastSnap # None /\ prevSnap # None) => lastSnap = prevSnap

\* C1 witness: a second run over a tree with two visible files has returned
C1_Witness ==
    /\ prevSnap # None
    /\ lastSnap # None
    /\ Len(lastSnap.val.files) = 2
    /\ fs[<<NameA>>].kind = "file"

\* C2 as stated: the records are in strictly ascending byte order of the
\* whole relative_path string (here for roots without trailing separator).
C2_ByteOrder ==
    (HashDone /\ ~EndsWith(root, Sep)) =>
        \A i, j \in 1..Len(slots) :
            i < j => BytesLess(Collected[i].path, Collected[j].path)

\* C2 amended: the records are in strictly ascending order of their files'
\* paths compared component by component (Ord of Utf8PathBuf), and so are the
\* relative paths when the root has no trailing separator.
C2_ComponentOrder ==
    HashDone =>
        \A i, j \in 1..Len(slots) :
            i < j =>
                /\ PathLess(file_list[i], file_list[j])
                /\ ~EndsWith(root, Sep) => PathLess(Collected[i].path, Collected[j].path)

\* C2 witness: file a.t next to directory a holding b; a/b comes first
C2_Witness ==
    /\ HashDone
    /\ Len(slots) = 2
    /\ Collected[1].path = <<97, 47, 98>>
    /\ Collected[2].path = <<97, 46, 116>>

\* The worklist of get_files is empty and its result holds exactly the
\* regular files no dot name hides, each once
WalkEndedExact ==
    /\ pc = "walk"
    /\ folders = <<>>
    /\ Range(files) = {RootBare \o <<47>> \o Slashed(n) : n \in VisibleFiles(fs)}
    /\ Cardinality(Range(files)) = Len(files)

\* C3: every walk get_files starts comes to an empty worklist, and its result
\* then holds exactly the visible regular files (no directory, link, hidden
\* file or file below a hidden directory), each once.
C3_WalkExact == (pc = "walk") ~> WalkEndedExact

\* C3 witness: the walk ended on a tree with a hidden file, a hidden
\* directory holding a file, a link and two visible files
C3_Witness ==
    /\ pc = "walk"
    /\ folders = <<>>
    /\ Len(files) = 2
    /\ fs[<<NameL>>].kind = "link"
    /\ fs[<<NameH, NameB>>].kind = "file"
    /\ fs[<<NameA, NameH>>].kind = "file"

\* A validation has returned and the tree has not changed since it started
ValidatedQuietly == ValidateDone /\ ~raced /\ persisted # None

\* C4 as stated: create_hashfile(root) followed by validate_hashfile(root),
\* the content unchanged in between, returns Ok(None), for every root string.
C4_SelfValidation ==
    (ValidatedQuietly /\ persisted = Ok(fs)) =>
        result = Ok([some |-> FALSE, paths |-> <<>>])

\* The recorded files that have since been overwritten with other content or
\* deleted
Changed ==
    {n \in VisibleFiles(persisted.val) :
        fs[n].kind # "file" \/ fs[n].content # persisted.val[n].content}

EntryFails(i) ==
    LET e == ParseLine(ParLines(hashfile.data)[i])
        p == Join(root, e.path)
    IN  \/ Stat(fs, p) # "file"
        \/ Blake3(fs[NodeOf(p)].content) # e.hash

\* The root-joined paths of the failing entries, in document order
ExpectedFailed ==
    LET n == Len(ParLines(hashfile.data))
        idx == SelectSeq([i \in 1..n |-> i], EntryFails)
    IN  [k \in 1..Len(idx) |-> Join(root, ParseLine(ParLines(hashfile.data)[idx[k]]).path)]

C8_MissingIsFailure ==
    /\ pc = "validate" => \A i \in 1..Len(slots) :
          slots[i].st = "err" => slots[i].kind # "NotFound"
    /\ (ValidateDone /\ result.st = "err") => result.kind # "NotFound"

\* C9 as stated: for every root string, relative_path is the file's path
\* with the root and one separator removed: it does not start with a
\* separator, it is the file's names below the root joined by '/', and the
\* root joined with it names the file that was hashed.
C9_RootStripped ==
    HashDone =>
        \A i \in 1..Len(slots) :
            /\ ~StartsWith(Collected[i].path, Sep)
            /\ Collected[i].path = Slashed(NodeOf(file_list[i]))
            /\ NodeOf(Join(root, Collected[i].path)) = NodeOf(file_list[i])

\* The (digest, path) pairs of the given records
InputPairs ==
    [i \in 1..Len(input) |->
        [st |-> "ok", hash |-> input[i].hash, path |-> input[i].path]]

\* What the parser of validate_data makes of the lines it was given
ParsedPairs == [i \in 1..Len(lines) |-> ParseLine(lines[i])]

\* No path of the given records holds byte b
NoPathByte(b) == \A i \in 1..Len(input) : b \notin Range(input[i].path)

DocLine(i) == ParLines(hashfile.data)[i]

NoDelimiter(l) == DELIM \notin Range(l)

\* The first field of the line is not 2 * DigestLen hex digits
BadDigest(l) ==
    /\ ~NoDelimiter(l)
    /\ LET hex == SubSeq(l, 1, IndexOf(l, DELIM) - 1)
       IN  \/ Len(hex) # 2 * DigestLen
           \/ \E k \in 1..Len(hex) : hex[k] \notin ((48..57) \cup (97..102) \cup (65..70))

\* The line parses, its file is there and cannot be read as a file
Unreadable(l) ==
    /\ ~NoDelimiter(l)
    /\ ~BadDigest(l)
    /\ Stat(fs, root \o <<47>> \o SubSeq(l, IndexOf(l, DELIM) + 1, Len(l))) = "dir"

HasBadLine ==
    \E i \in 1..Len(ParLines(hashfile.data)) :
        NoDelimiter(DocLine(i)) \/ BadDigest(DocLine(i))

\* C7 as stated: a line without delimiter or with an undecodable digest
\* makes validate_data return an error of the InvalidData kind in both cases.
C7_InvalidData ==
    (ValidateDone /\ HasBadLine) => result = Err("InvalidData")

\* C7 amended: such a line makes validate_data return an error and never a
\* validation outcome, wherever it is; the error is that of one of the
\* failing lines: NotFound for a line without delimiter, InvalidData for an
\* undecodable digest, or the I/O error of another line.
C7_AbortsWithLineError ==
    (ValidateDone /\ HasBadLine) =>
        /\ result.st = "err"
        /\ \E i \in 1..Len(ParLines(hashfile.data)) :
             \/ NoDelimiter(DocLine(i)) /\ result.kind = "NotFound"
             \/ BadDigest(DocLine(i)) /\ result.kind = "InvalidData"
             \/ Unreadable(DocLine(i)) /\ result.kind = "Other"

\* C7 witness: the first line checks out, the second has no delimiter, and
\* validation returned the NotFound error
C7_Witness ==
    /\ ValidateDone
    /\ Len(ParLines(hashfile.data)) = 2
    /\ DocLine(1) = ToHex(Blake3(1)) \o <<DELIM, 97>>
    /\ fs[<<NameA>>].kind = "file"
    /\ NoDelimiter(DocLine(2))
    /\ result = Err("NotFound")

\* The aggregate hasher has been fed the given records
Folded == op = "fold"

\* C10 as stated: no other sorted record sequence gives the byte stream
\* hash_directory feeds the aggregate hasher.
C10_Unambiguous ==
    Folded =>
        \A other \in InputRecords :
            AggregateStream(other) = fed =>
                [i \in 1..Len(other) |-> <<other[i].hash, other[i].path>>]
                    = [i \in 1..Len(input) |-> <<input[i].hash, input[i].path>>]

\* The stream cut into records of DigestLen digest bytes and a path of the
\* given length each (a stream that ends early gives short pieces)
RECURSIVE Unfeed(_, _)
Unfeed(stream, lens) ==
    IF lens = <<>> THEN (IF stream = <<>> THEN <<>> ELSE << <<stream>> >>)
    ELSE << <<SubSeq(stream, 1, Min(DigestLen, Len(stream))),
              SubSeq(stream, DigestLen + 1, Min(DigestLen + lens[1], Len(stream)))>> >>
         \o Unfeed(SubSeq(stream, DigestLen + lens[1] + 1, Len(stream)), Tail(lens))

\* C10 amended: the stream is unambiguous among record sequences whose paths
\* have the same lengths, record by record: cut at those lengths it gives
\* back exactly the records fed.
C10_UnambiguousGivenLengths ==
    Folded =>
        Unfeed(fed, [i \in 1..Len(input) |-> Len(input[i].path)])
            = [i \in 1..Len(input) |-> <<input[i].hash, input[i].path>>]

\* C10 witness: two records were fed and another sorted sequence gives the
\* same stream
C10_Witness ==
    /\ Folded
    /\ Len(input) = 2
    /\ \E other \in InputRecords : other # input /\ AggregateStream(other) = fed

\* Record i of the input has the delimiter in its path
HasDelimiter(i) == DELIM \in Range(input[i].path)

\* C11 as stated: a record whose path holds the delimiter is not recovered:
\* no line the parser of validate_data reads gives its (digest, path) pair.
C11_DelimiterMisparses ==
    pc = "validate" =>
        \A i \in 1..Len(input) :
            HasDelimiter(i) => InputPairs[i] \notin Range(ParsedPairs)

\* C11 amended: the line is split at its first delimiter, which ends the hex
\* digest, so a record whose path holds the delimiter is recovered exactly,
\* as long as every record is written on one line (no path holds a line feed
\* or ends in a carriage return).
C11_DelimiterRecovered ==
    ( /\ pc = "validate"
      /\ NoPathByte(NEWLINE)
      /\ \A i \in 1..Len(input) : ~EndsWith(input[i].path, 13) )
    => /\ Len(lines) = Len(input)
       /\ \A i \in 1..Len(input) : HasDelimiter(i) => ParsedPairs[i] = InputPairs[i]

\* C11 witness: two records were written and parsed, one with a path that
\* has the delimiter after its first byte and one with a path that starts
\* with it
C11_Witness ==
    /\ pc = "validate"
    /\ Len(input) = 2
    /\ NoPathByte(NEWLINE)
    /\ \E i, j \in 1..2 :
          /\ input[i].path[1] = DELIM
          /\ input[j].path[1] # DELIM
          /\ HasDelimiter(j)

====
